---- MODULE Spec2Model ----
(***************************************************************************)
(* Connection lifecycle of the two Lesson 3 peripherals of bt-fund.        *)
(*                                                                         *)
(*   ex1  lesson3/blefund_less3_exer1/src/main.c  (connected_cb,           *)
(*        disconnected_cb, button_handler)                                 *)
(*   ex2  lesson3/blefund_less3_exer2/src/main.c  (on_connected,           *)
(*        on_disconnected, on_le_*_updated, exchange_func, button_changed) *)
(*                                                                         *)
(* Both programs are driven by the same host stack: every stack event is   *)
(* delivered to the callback each program registered for it, one event at  *)
(* a time.  The state of a program is a record: its global my_conn, the    *)
(* connection status LED, the number of references it has taken and not    *)
(* yet released on every connection object, and the stack calls made by    *)
(* the handler that ran last.  For ex2 the record also carries what the    *)
(* stack knows about its negotiation requests.  startup is main(), which   *)
(* is the same in the two programs: where it stands and the calls it made. *)
(***************************************************************************)
EXTENDS Integers, Sequences, FiniteSets, TLC

\* Connection objects of the host stack (its connection pool).
NumConns == 2

NULL == 0
USER_BUTTON == 1
\* "3 bytes is the ATT header"
ATT_HEADER == 3

Conns == 1..NumConns
ConnsOrNull == Conns \cup {NULL}

\* Return codes of the stack calls: 0, or a negative errno.
RetCodes == {0, -5}
\* The uint8_t err of the connected and MTU-exchange callbacks.
ErrCodes == {0, 2}
\* The uint8_t reason of the disconnected callback (only logged).
Reasons == {19}
\* button_state and has_changed masks of two buttons.
ButtonMasks == 0..3
\* struct bt_conn_le_phy_info: 1M or 2M in each direction.
PhyInfos == [tx_phy : {1, 2}, rx_phy : {1, 2}]
\* struct bt_conn_le_data_len_info: the default and the largest length.
DataLenInfos == [tx_max_len : {27, 251}, rx_max_len : {27, 251}]
\* Values of bt_gatt_get_mtu: the default ATT MTU and a negotiated one.
Mtus == {23, 247}

VARIABLES ex1, ex2, link, ev, startup

vars == <<ex1, ex2, link, ev, startup>>

----------------------------------------------------------------------------
\* Stack calls, as the handlers use them.

Call(api, arg, rc) == [api |-> api, arg |-> arg, rc |-> rc]

Logged(s, api, arg, rc) == [s EXCEPT !.calls = Append(@, Call(api, arg, rc))]

\* bt_conn_ref(conn): one more reference held by the application; returns conn.
bt_conn_ref(s, conn) ==
    Logged([s EXCEPT !.refs[conn] = @ + 1], "bt_conn_ref", conn, 0)

\* bt_conn_unref(conn): one reference given back, whether or not one is held.
bt_conn_unref(s, conn) ==
    Logged([s EXCEPT !.refs[conn] = @ - 1], "bt_conn_unref", conn, 0)

\* dk_set_led(CON_STATUS_LED, val)
dk_set_led(s, val) ==
    Logged([s EXCEPT !.led = val], "dk_set_led", val, 0)

\* A negotiation request on conn that the stack answers with rc: it is
\* outstanding (a completion will be delivered) when the stack accepted it.
Request(s, api, kind, conn, rc) ==
    Logged([s EXCEPT !.reqlog[conn] = Append(@, kind),
                     !.pending[conn] = IF rc = 0 THEN @ \cup {kind} ELSE @],
           api, conn, rc)

\* x & y on non-negative integers.
RECURSIVE BitAnd(_, _)
BitAnd(x, y) ==
    IF x = 0 \/ y = 0 THEN 0
    ELSE (IF x % 2 = 1 /\ y % 2 = 1 THEN 1 ELSE 0) + 2 * BitAnd(x \div 2, y \div 2)

----------------------------------------------------------------------------
\* Exercise 1.

\* Variant: the reference is taken before err is looked at.
connected_cb_ref_first(s, conn, err) ==
    LET s1 == [bt_conn_ref(s, conn) EXCEPT !.my_conn = conn]
    IN  IF err # 0 THEN s1 ELSE dk_set_led(s1, 1)

connected_cb(s, conn, err) ==
    IF err # 0
    THEN s
    ELSE dk_set_led([bt_conn_ref(s, conn) EXCEPT !.my_conn = conn], 1)

disconnected_cb(s, conn, reason) ==
    dk_set_led(bt_conn_unref(s, s.my_conn), 0)

\* Variant: the send is skipped while my_conn is NULL.
button_handler_gated(s, button_state, has_changed, rc) ==
    IF BitAnd(has_changed, USER_BUTTON) # 0 /\ s.my_conn # NULL
    THEN Logged(s, "bt_lbs_send_button_state", IF button_state # 0 THEN 1 ELSE 0, rc)
    ELSE s

button_handler(s, button_state, has_changed, rc) ==
    IF BitAnd(has_changed, USER_BUTTON) # 0
    THEN Logged(s, "bt_lbs_send_button_state", IF button_state # 0 THEN 1 ELSE 0, rc)
    ELSE s

----------------------------------------------------------------------------
\* Exercise 2.

update_phy(s, conn, rc) ==
    Request(s, "bt_conn_le_phy_update", "phy", conn, rc)

update_data_length(s, conn, rc) ==
    Request(s, "bt_conn_le_data_len_update", "dl", conn, rc)

update_mtu(s, conn, rc) ==
    Request(s, "bt_gatt_exchange_mtu", "mtu", conn, rc)

\* Variant: the data length is requested before the PHY.
on_connected_dl_first(s, conn, err, rc) ==
    IF err # 0
    THEN s
    ELSE LET s1 == dk_set_led([bt_conn_ref(s, conn) EXCEPT !.my_conn = conn], 1)
             s2 == Logged(s1, "bt_conn_get_info", s1.my_conn, rc.info)
         IN  IF rc.info # 0
             THEN s2
             ELSE LET s3 == update_data_length(s2, s2.my_conn, rc.dl)
                      s4 == update_phy(s3, s3.my_conn, rc.phy)
                  IN  update_mtu(s4, s4.my_conn, rc.mtu)

\* Variant: a rejected request ends the negotiation.
on_connected_stop_on_error(s, conn, err, rc) ==
    IF err # 0
    THEN s
    ELSE LET s1 == dk_set_led([bt_conn_ref(s, conn) EXCEPT !.my_conn = conn], 1)
             s2 == Logged(s1, "bt_conn_get_info", s1.my_conn, rc.info)
             s3 == update_phy(s2, s2.my_conn, rc.phy)
             s4 == update_data_length(s3, s3.my_conn, rc.dl)
         IN  IF rc.info # 0 THEN s2
             ELSE IF rc.phy # 0 THEN s3
             ELSE IF rc.dl # 0 THEN s4
             ELSE update_mtu(s4, s4.my_conn, rc.mtu)

\* Variant: a failed bt_conn_get_info gives the connection up.
on_connected_release_on_info_error(s, conn, err, rc) ==
    IF err # 0
    THEN s
    ELSE LET s1 == dk_set_led([bt_conn_ref(s, conn) EXCEPT !.my_conn = conn], 1)
             s2 == Logged(s1, "bt_conn_get_info", s1.my_conn, rc.info)
         IN  IF rc.info # 0
             THEN bt_conn_unref(dk_set_led(s2, 0), s2.my_conn)
             ELSE LET s3 == update_phy(s2, s2.my_conn, rc.phy)
                      s4 == update_data_length(s3, s3.my_conn, rc.dl)
                  IN  update_mtu(s4, s4.my_conn, rc.mtu)

\* rc: the return codes of bt_conn_get_info and of the three requests.
on_connected(s, conn, err, rc) ==
    IF err # 0
    THEN s
    ELSE LET s1 == dk_set_led([bt_conn_ref(s, conn) EXCEPT !.my_conn = conn], 1)
             s2 == Logged(s1, "bt_conn_get_info", s1.my_conn, rc.info)
         IN  IF rc.info # 0
             THEN s2
             ELSE LET s3 == update_phy(s2, s2.my_conn, rc.phy)
                      s4 == update_data_length(s3, s3.my_conn, rc.dl)
                  IN  update_mtu(s4, s4.my_conn, rc.mtu)

\* Variant: my_conn is reset once its reference is released.
on_disconnected_clears(s, conn, reason) ==
    LET s1 == dk_set_led(s, 0)
    IN  [bt_conn_unref(s1, s1.my_conn) EXCEPT !.my_conn = NULL]

on_disconnected(s, conn, reason) ==
    LET s1 == dk_set_led(s, 0)
    IN  bt_conn_unref(s1, s1.my_conn)

\* Variant: a parameter update starts the negotiation again.
on_le_param_updated_renegotiate(s, conn) == update_phy(s, conn, 0)

on_le_param_updated(s, conn) == s

\* Variant: the PHY completion requests the data length.
on_le_phy_updated_chained(s, conn, info) == update_data_length(s, conn, 0)

\* Logs the names of info.tx_phy and info.rx_phy.
on_le_phy_updated(s, conn, info) == s

\* Variant: the data length completion requests the MTU exchange.
on_le_data_length_updated_chained(s, conn, info) == update_mtu(s, conn, 0)

\* Logs the lengths and times of info.
on_le_data_length_updated(s, conn, info) == s

\* Variant: the negotiated MTU is kept in the program's state.
exchange_func_records(s, conn, err, mtu) ==
    IF err = 0
    THEN Logged(Logged(s, "bt_gatt_get_mtu", conn, mtu), "LOG_INF", mtu - ATT_HEADER, 0)
            @@ [mtu |-> mtu]
    ELSE s

\* Variant: the ATT header is not subtracted.
exchange_func_whole_mtu(s, conn, err, mtu) ==
    IF err = 0
    THEN Logged(Logged(s, "bt_gatt_get_mtu", conn, mtu), "LOG_INF", mtu, 0)
    ELSE s

\* Variant: a failed MTU exchange is requested again.
exchange_func_retry(s, conn, err, mtu) ==
    IF err = 0
    THEN Logged(Logged(s, "bt_gatt_get_mtu", conn, mtu), "LOG_INF", mtu - ATT_HEADER, 0)
    ELSE update_mtu(s, conn, 0)

\* mtu: the value bt_gatt_get_mtu(conn) returns; LOG_INF is the line
\* "Negotiated MTU is %d bytes" with its argument.
exchange_func(s, conn, err, mtu) ==
    IF err = 0
    THEN Logged(Logged(s, "bt_gatt_get_mtu", conn, mtu), "LOG_INF", mtu - ATT_HEADER, 0)
    ELSE s

\* Variant: a rejected send is tried once more.
button_changed_retry(s, button_state, has_changed, rc) ==
    IF BitAnd(has_changed, USER_BUTTON) # 0
    THEN LET s1 == Logged(s, "bt_lbs_send_button_state", IF button_state # 0 THEN 1 ELSE 0, rc)
         IN  IF rc # 0
             THEN Logged(s1, "bt_lbs_send_button_state", IF button_state # 0 THEN 1 ELSE 0, rc)
             ELSE s1
    ELSE s

button_changed(s, button_state, has_changed, rc) ==
    IF BitAnd(has_changed, USER_BUTTON) # 0
    THEN Logged(s, "bt_lbs_send_button_state", IF button_state # 0 THEN 1 ELSE 0, rc)
    ELSE s

----------------------------------------------------------------------------
\* main(), one call at a time.  rc is what the call returns
\* (bt_conn_cb_register returns nothing).  At "loop" main blinks the run
\* status LED for ever; at "return" it has given up.

MainStep(m, api, rc, next) ==
    [pc |-> IF rc # 0 THEN "return" ELSE next, calls |-> Append(m.calls, Call(api, NULL, rc))]

\* Variant: a failed bt_enable does not stop main.
main_adv_anyway(m, rc) ==
    CASE m.pc = "dk_leds_init" -> MainStep(m, "dk_leds_init", rc, "init_button")
      [] m.pc = "init_button" -> MainStep(m, "dk_buttons_init", rc, "bt_conn_cb_register")
      [] m.pc = "bt_conn_cb_register" -> MainStep(m, "bt_conn_cb_register", 0, "bt_enable")
      [] m.pc = "bt_enable" ->
            [pc |-> "bt_le_adv_start", calls |-> Append(m.calls, Call("bt_enable", NULL, rc))]
      [] m.pc = "bt_le_adv_start" -> MainStep(m, "bt_le_adv_start", rc, "loop")
      [] OTHER -> m

main(m, rc) ==
    CASE m.pc = "dk_leds_init" -> MainStep(m, "dk_leds_init", rc, "init_button")
      [] m.pc = "init_button" -> MainStep(m, "dk_buttons_init", rc, "bt_conn_cb_register")
      [] m.pc = "bt_conn_cb_register" -> MainStep(m, "bt_conn_cb_register", 0, "bt_enable")
      [] m.pc = "bt_enable" -> MainStep(m, "bt_enable", rc, "bt_le_adv_start")
      [] m.pc = "bt_le_adv_start" -> MainStep(m, "bt_le_adv_start", rc, "loop")
      [] OTHER -> m

----------------------------------------------------------------------------
\* The host stack.

\* The event delivered last; arg is its err, reason or has_changed.
Event(type, conn, arg) == [type |-> type, conn |-> conn, arg |-> arg]

\* A handler starts with an empty list of calls.
Enter(s) == [s EXCEPT !.calls = <<>>]

\* A new link on conn: the stack holds no request of an earlier link.
NewLink(s, conn) == [s EXCEPT !.reqlog[conn] = <<>>, !.pending[conn] = {}]

\* The completion of an outstanding request is delivered.
Completed(s, conn, kind) == [s EXCEPT !.pending[conn] = @ \ {kind}]

InitApp == [my_conn |-> NULL, led |-> 0, refs |-> [c \in Conns |-> 0], calls |-> <<>>]

Init ==
    /\ ex1 = InitApp
    /\ ex2 = InitApp @@ [reqlog |-> [c \in ConnsOrNull |-> <<>>],
                         pending |-> [c \in ConnsOrNull |-> {}]]
    /\ link = [c \in Conns |-> FALSE]
    /\ ev = Event("boot", NULL, 0)
    /\ startup = [pc |-> "dk_leds_init", calls |-> <<>>]

\* A call of main succeeded.
Succeeded(api) ==
    \E i \in DOMAIN startup.calls : startup.calls[i].api = api /\ startup.calls[i].rc = 0

\* main makes its next call.
EvMain ==
    \E rc \in RetCodes :
        /\ startup.pc \notin {"loop", "return"}
        /\ startup.pc = "bt_conn_cb_register" => rc = 0
        /\ startup' = main(startup, rc)
        /\ ev' = Event("main", NULL, rc)
        /\ UNCHANGED <<ex1, ex2, link>>

\* The stack gives a new link the first connection object of its pool that
\* has no link and on which nobody holds (or has over-released) a reference.
Free(c) == ~link[c] /\ ex1.refs[c] = 0 /\ ex2.refs[c] = 0

FirstFree(c) == Free(c) /\ \A d \in Conns : d < c => ~Free(d)

\* The return codes that on_connected reads: none when err # 0, only that of
\* bt_conn_get_info when it fails.
Reads(err, rc) ==
    /\ err # 0 => rc.info = 0
    /\ (err # 0 \/ rc.info # 0) => (rc.phy = 0 /\ rc.dl = 0 /\ rc.mtu = 0)

\* connected: reported, once advertising has started, for a connection
\* object that had no link; the link exists afterwards when err = 0.
EvConnected ==
    \E c \in Conns, err \in ErrCodes,
       rc \in [info : RetCodes, phy : RetCodes, dl : RetCodes, mtu : RetCodes] :
        /\ Succeeded("bt_le_adv_start")
        /\ FirstFree(c)
        /\ Reads(err, rc)
        /\ link' = [link EXCEPT ![c] = (err = 0)]
        /\ ex1' = connected_cb(Enter(ex1), c, err)
        /\ ex2' = on_connected(Enter(IF err = 0 THEN NewLink(ex2, c) ELSE ex2), c, err, rc)
        /\ ev' = Event("connected", c, err)
        /\ UNCHANGED startup

\* disconnected: reported for a connection object whose link exists.
EvDisconnected ==
    \E c \in Conns, reason \in Reasons :
        /\ link[c]
        /\ link' = [link EXCEPT ![c] = FALSE]
        /\ ex1' = disconnected_cb(Enter(ex1), c, reason)
        /\ ex2' = on_disconnected(Enter(ex2), c, reason)
        /\ ev' = Event("disconnected", c, reason)
        /\ UNCHANGED startup

\* le_param_updated: the peer changed the connection parameters.
EvParamUpdated ==
    \E c \in Conns :
        /\ link[c]
        /\ ex1' = Enter(ex1)
        /\ ex2' = on_le_param_updated(Enter(ex2), c)
        /\ ev' = Event("le_param_updated", c, 0)
        /\ UNCHANGED <<link, startup>>

\* le_phy_updated: completion of an outstanding PHY request, which may
\* arrive after the link is gone.
EvPhyUpdated ==
    \E c \in Conns, info \in PhyInfos :
        /\ "phy" \in ex2.pending[c]
        /\ ex1' = Enter(ex1)
        /\ ex2' = on_le_phy_updated(Enter(Completed(ex2, c, "phy")), c, info)
        /\ ev' = Event("le_phy_updated", c, 0)
        /\ UNCHANGED <<link, startup>>

\* le_data_len_updated: completion of an outstanding data length request.
EvDataLengthUpdated ==
    \E c \in Conns, info \in DataLenInfos :
        /\ "dl" \in ex2.pending[c]
        /\ ex1' = Enter(ex1)
        /\ ex2' = on_le_data_length_updated(Enter(Completed(ex2, c, "dl")), c, info)
        /\ ev' = Event("le_data_len_updated", c, 0)
        /\ UNCHANGED <<link, startup>>

\* exchange_params.func: completion of an outstanding MTU exchange.
EvMtuExchanged ==
    \E c \in Conns, err \in ErrCodes, mtu \in Mtus :
        /\ "mtu" \in ex2.pending[c]
        /\ ex1' = Enter(ex1)
        /\ ex2' = exchange_func(Enter(Completed(ex2, c, "mtu")), c, err, mtu)
        /\ ev' = Event("mtu_exchanged", c, err)
        /\ UNCHANGED <<link, startup>>

\* The button driver reports a change to the handler init_button gave it.
EvButton ==
    \E button_state \in ButtonMasks, has_changed \in ButtonMasks, rc \in RetCodes :
        /\ has_changed # 0
        /\ Succeeded("dk_buttons_init")
        /\ ex1' = button_handler(Enter(ex1), button_state, has_changed, rc)
        /\ ex2' = button_changed(Enter(ex2), button_state, has_changed, rc)
        /\ ev' = Event("button", NULL, has_changed)
        /\ UNCHANGED <<link, startup>>

Next ==
    \/ EvMain
    \/ EvConnected
    \/ EvDisconnected
    \/ EvParamUpdated
    \/ EvPhyUpdated
    \/ EvDataLengthUpdated
    \/ EvMtuExchanged
    \/ EvButton

Spec == Init /\ [][Next]_vars

----------------------------------------------------------------------------
\* Vocabulary of the properties.

TypeOK ==
    /\ ex1.my_conn \in ConnsOrNull
    /\ ex2.my_conn \in ConnsOrNull
    /\ ex1.led \in {0, 1}
    /\ ex2.led \in {0, 1}
    /\ \A c \in Conns : ex1.refs[c] \in -NumConns..1 /\ ex2.refs[c] \in -NumConns..1
    /\ link \in [Conns -> BOOLEAN]

\* The program tracks a connection: my_conn designates one it holds a reference on.
Tracked(s) == s.my_conn # NULL /\ s.refs[s.my_conn] > 0

RequestApis == {"bt_conn_le_phy_update", "bt_conn_le_data_len_update", "bt_gatt_exchange_mtu"}

CompletionEvents == {"le_phy_updated", "le_data_len_updated", "mtu_exchanged"}

PhyDlMtu == <<"phy", "dl", "mtu">>

Apis(calls) == [i \in DOMAIN calls |-> calls[i].api]

Made(calls, api) == \E i \in DOMAIN calls : calls[i].api = api

Rejected(calls, api) == \E i \in DOMAIN calls : calls[i].api = api /\ calls[i].rc # 0

Count(kind, log) == Cardinality({i \in DOMAIN log : log[i] = kind})

\* The last event was a successful connected whose bt_conn_get_info succeeded.
ConnectedInfoOk ==
    /\ ev.type = "connected"
    /\ ev.arg = 0
    /\ \E i \in DOMAIN ex2.calls : ex2.calls[i].api = "bt_conn_get_info" /\ ex2.calls[i].rc = 0

\* What a handler may change of a program besides its list of calls.
SameApp(s, t) == s.my_conn = t.my_conn /\ s.refs = t.refs /\ s.led = t.led

----------------------------------------------------------------------------
\* C1: a successful connected event that arrives while a connection is
\* tracked never replaces the tracked connection reference my_conn.
C1_NoSilentOverwrite ==
    [][(ev'.type = "connected" /\ ev'.arg = 0) =>
        /\ Tracked(ex1) => ex1'.my_conn = ex1.my_conn
        /\ Tracked(ex2) => ex2'.my_conn = ex2.my_conn]_vars

\* C2: after a disconnected event for the tracked connection, my_conn
\* designates no connection.
C2_SlotEmptyAfterDisconnect ==
    [][ev'.type = "disconnected" =>
        /\ (Tracked(ex1) /\ ex1.my_conn = ev'.conn) => ex1'.my_conn = NULL
        /\ (Tracked(ex2) /\ ex2.my_conn = ev'.conn) => ex2'.my_conn = NULL]_vars

\* C3: the references held are never negative and are exactly one on a
\* connection that has a link and none on a connection that has none: each
\* reference is released once, by the disconnected event of its connection.
C3_RefsBalanced ==
    \A c \in Conns :
        /\ ex1.refs[c] = (IF link[c] THEN 1 ELSE 0)
        /\ ex2.refs[c] = (IF link[c] THEN 1 ELSE 0)

\* C4: the requests issued on a link are PHY, data length, MTU in this
\* order, all three once bt_conn_get_info succeeded, whatever completions
\* have been delivered since.
C4_NegotiationOrder ==
    /\ \A c \in ConnsOrNull : ex2.reqlog[c] \in {<<>>, PhyDlMtu}
    /\ ConnectedInfoOk => ex2.reqlog[ev.conn] = PhyDlMtu

\* C4 witness: the MTU completion is delivered while the PHY and data length
\* requests of the same link are still outstanding.
C4_Witness ==
    /\ ev.type = "mtu_exchanged"
    /\ link[ev.conn]
    /\ ex2.reqlog[ev.conn] = PhyDlMtu
    /\ ex2.pending[ev.conn] = {"phy", "dl"}

C6_SendOnlyWhileTracked ==
    ev.type = "button" =>
        /\ Made(ex1.calls, "bt_lbs_send_button_state") => Tracked(ex1)
        /\ Made(ex2.calls, "bt_lbs_send_button_state") => Tracked(ex2)

\* C6 (amended): the button handlers call the send operation exactly once
\* when the user button changed and not at all otherwise, tracked connection
\* or not, with the value "some button is down".
C6_SendOnUserButtonChange ==
    ev.type = "button" =>
        /\ ex1.calls = ex2.calls
        /\ IF BitAnd(ev.arg, USER_BUTTON) # 0
           THEN /\ Len(ex1.calls) = 1
                /\ ex1.calls[1].api = "bt_lbs_send_button_state"
                /\ ex1.calls[1].arg \in {0, 1}
           ELSE ex1.calls = <<>>

\* C6 witness: a send is attempted although no connection was ever made.
C6_Witness ==
    /\ ev.type = "button"
    /\ Made(ex1.calls, "bt_lbs_send_button_state")
    /\ Made(ex2.calls, "bt_lbs_send_button_state")
    /\ ex1.my_conn = NULL
    /\ ex2.my_conn = NULL

\* C7: a disconnected event for a connection other than the tracked one
\* leaves my_conn and the references unchanged.
C7_UnknownHandleIgnored ==
    [][ev'.type = "disconnected" =>
        /\ ex1.my_conn # ev'.conn => (ex1'.my_conn = ex1.my_conn /\ ex1'.refs = ex1.refs)
        /\ ex2.my_conn # ev'.conn => (ex2'.my_conn = ex2.my_conn /\ ex2'.refs = ex2.refs)]_vars

C9_RejectionsNonFatal ==
    ConnectedInfoOk =>
        /\ Apis(ex2.calls) = <<"bt_conn_ref", "dk_set_led", "bt_conn_get_info",
                               "bt_conn_le_phy_update", "bt_conn_le_data_len_update",
                               "bt_gatt_exchange_mtu">>
        /\ ex2.my_conn = ev.conn
        /\ ex2.refs[ev.conn] = 1
        /\ ex2.led = 1
        /\ ex2.pending[ev.conn] =
              {k \in {"phy", "dl", "mtu"} :
                  \E i \in DOMAIN ex2.calls :
                      /\ ex2.calls[i].rc = 0
                      /\ ex2.calls[i].api = (CASE k = "phy" -> "bt_conn_le_phy_update"
                                               [] k = "dl" -> "bt_conn_le_data_len_update"
                                               [] k = "mtu" -> "bt_gatt_exchange_mtu")}

\* C9 witness: all three requests were rejected.
C9_Witness ==
    /\ ConnectedInfoOk
    /\ Rejected(ex2.calls, "bt_conn_le_phy_update")
    /\ Rejected(ex2.calls, "bt_conn_le_data_len_update")
    /\ Rejected(ex2.calls, "bt_gatt_exchange_mtu")
    /\ Tracked(ex2)

\* C10 (as claimed): the data length request is issued by the handling of
\* the PHY completion and the MTU exchange by the handling of the data
\* length completion.
C10_ChainedThroughCompletions ==
    /\ Made(ex2.calls, "bt_conn_le_data_len_update") => ev.type = "le_phy_updated"
    /\ Made(ex2.calls, "bt_gatt_exchange_mtu") => ev.type = "le_data_len_updated"

\* C10 (amended): every request is issued by the handling of a successful
\* connected event; the handling of a completion issues none.
C10_IssuedByOnConnected ==
    /\ (\E api \in RequestApis : Made(ex2.calls, api)) => (ev.type = "connected" /\ ev.arg = 0)
    /\ \A c \in Conns : Len(ex2.reqlog[c]) <= 3
    /\ ev.type \in CompletionEvents =>
          (ex2.calls = <<>> \/ Apis(ex2.calls) = <<"bt_gatt_get_mtu", "LOG_INF">>)

\* C10 witness: the PHY completion is handled when the data length and MTU
\* requests of the link have long been issued.
C10_Witness ==
    /\ ev.type = "le_phy_updated"
    /\ link[ev.conn]
    /\ ex2.reqlog[ev.conn] = PhyDlMtu
    /\ ex2.calls = <<>>

----------------------------------------------------------------------------
\* The request a completion event answers.
KindOf(type) ==
    CASE type = "le_phy_updated" -> "phy"
      [] type = "le_data_len_updated" -> "dl"
      [] type = "mtu_exchanged" -> "mtu"

\* The calls of the connection lifecycle and of the button, which the two
\* programs have in common.
LifecycleApis == {"bt_conn_ref", "bt_conn_unref", "dk_set_led", "bt_lbs_send_button_state"}

StartupOrder ==
    <<"dk_leds_init", "dk_buttons_init", "bt_conn_cb_register", "bt_enable", "bt_le_adv_start">>

\* C11 (as claimed): the successful MTU completion that ends the negotiation
\* of a linked connection leaves a record in the program's state (the Ready
\* state, the negotiated values), which the state before it did not hold.
C11_ReadyAfterNegotiation ==
    [][(/\ ev'.type = "mtu_exchanged"
        /\ ev'.arg = 0
        /\ link[ev'.conn]
        /\ ex2.reqlog[ev'.conn] = PhyDlMtu
        /\ ex2.pending[ev'.conn] = {"mtu"}) =>
            Enter(ex2') # Enter(Completed(ex2, ev'.conn, "mtu"))]_vars

\* C11 (amended): a completion leaves nothing in the program's state but
\* the calls of its handler: the state after connected, phy_updated,
\* data_length_updated and the MTU exchange is the state after connected.
C11_CompletionsOnlyLogged ==
    [][ev'.type \in CompletionEvents =>
        /\ Enter(ex2') = Enter(Completed(ex2, ev'.conn, KindOf(ev'.type)))
        /\ ex1' = Enter(ex1)
        /\ link' = link]_vars

\* C11 witness: the MTU exchange succeeded last, nothing is outstanding on
\* the tracked, linked connection.
C11_Witness ==
    /\ ev.type = "mtu_exchanged"
    /\ ev.arg = 0
    /\ link[ev.conn]
    /\ ex2.my_conn = ev.conn
    /\ ex2.reqlog[ev.conn] = PhyDlMtu
    /\ ex2.pending[ev.conn] = {}
    /\ DOMAIN ex2 = {"my_conn", "led", "refs", "calls", "reqlog", "pending"}

\* C12: le_param_updated issues no request and changes neither my_conn, the
\* references, the LED nor anything else of the two programs.
C12_ParamUpdatedObservedOnly ==
    [][ev'.type = "le_param_updated" =>
        /\ ex2' = Enter(ex2)
        /\ ex1' = Enter(ex1)
        /\ link' = link]_vars

\* C12 witness: the parameters of the tracked connection were updated after
\* its negotiation requests had been issued.
C12_Witness ==
    /\ ev.type = "le_param_updated"
    /\ ex2.my_conn = ev.conn
    /\ Tracked(ex2)
    /\ ex2.led = 1
    /\ ex2.reqlog[ev.conn] = PhyDlMtu

\* C13: a successful MTU completion reports the MTU of its connection less
\* the 3 bytes of the ATT header (244 for 247); a failed one reports nothing.
C13_UsablePayload ==
    ev.type = "mtu_exchanged" =>
        IF ev.arg = 0
        THEN /\ Apis(ex2.calls) = <<"bt_gatt_get_mtu", "LOG_INF">>
             /\ ex2.calls[1].arg = ev.conn
             /\ ex2.calls[2].arg = ex2.calls[1].rc - 3
             /\ ex2.calls[1].rc = 247 => ex2.calls[2].arg = 244
        ELSE ~Made(ex2.calls, "LOG_INF") /\ ~Made(ex2.calls, "bt_gatt_get_mtu")

\* C13 witness: an MTU of 247 was negotiated and 244 reported.
C13_Witness ==
    /\ ev.type = "mtu_exchanged"
    /\ ev.arg = 0
    /\ ex2.calls[1].rc = 247
    /\ ex2.calls[2].arg = 244

\* C14: main makes its calls in the order LEDs, buttons, callback
\* registration, stack enable, advertising; a call that fails is its last
\* one, so advertising is started only after the others succeeded, and no
\* connection is ever reported unless advertising was started.
C14_StartupOrder ==
    /\ Len(startup.calls) <= Len(StartupOrder)
    /\ Apis(startup.calls) = SubSeq(StartupOrder, 1, Len(startup.calls))
    /\ \A i \in DOMAIN startup.calls :
          startup.calls[i].rc # 0 => (i = Len(startup.calls) /\ startup.pc = "return")
    /\ startup.pc = "return" => (startup.calls # <<>> /\ startup.calls[Len(startup.calls)].rc # 0)
    /\ startup.pc = "loop" => Succeeded("bt_le_adv_start")
    /\ (\E c \in Conns : link[c] \/ ex1.refs[c] # 0 \/ ex2.refs[c] # 0) =>
          Succeeded("bt_le_adv_start")

\* C14 witness: bt_enable failed after the callbacks were registered; main
\* has returned without starting advertising.
C14_Witness ==
    /\ startup.pc = "return"
    /\ Apis(startup.calls) = SubSeq(StartupOrder, 1, 4)
    /\ startup.calls[4].rc # 0

\* C15: a button event, whatever the send returns, changes nothing of the
\* two programs nor any link, and makes exactly one send when the user
\* button changed (none otherwise), also when the send before was rejected.
C15_RejectedSendDropped ==
    [][ev'.type = "button" =>
        /\ Enter(ex1') = Enter(ex1)
        /\ Enter(ex2') = Enter(ex2)
        /\ link' = link
        /\ Len(ex1'.calls) = (IF BitAnd(ev'.arg, USER_BUTTON) # 0 THEN 1 ELSE 0)
        /\ Len(ex2'.calls) = (IF BitAnd(ev'.arg, USER_BUTTON) # 0 THEN 1 ELSE 0)
        /\ \A i \in DOMAIN ex1'.calls : ex1'.calls[i].api = "bt_lbs_send_button_state"
        /\ \A i \in DOMAIN ex2'.calls : ex2'.calls[i].api = "bt_lbs_send_button_state"]_vars

\* C15 witness: the send was rejected while a connection is tracked and
\* linked; the connection is still there.
C15_Witness ==
    /\ ev.type = "button"
    /\ Rejected(ex1.calls, "bt_lbs_send_button_state")
    /\ Rejected(ex2.calls, "bt_lbs_send_button_state")
    /\ Tracked(ex2)
    /\ link[ex2.my_conn]
    /\ ex2.led = 1

\* C16: a connected event with err # 0 makes no call and changes nothing of
\* the two programs: no reference, my_conn and the LED as they were, no request.
C16_FailedConnectIgnored ==
    [][(ev'.type = "connected" /\ ev'.arg # 0) =>
        /\ ex1' = Enter(ex1)
        /\ ex2' = Enter(ex2)
        /\ link' = link]_vars

\* C16 witness: a connection attempt failed while another connection is
\* tracked with the LED on.
C16_Witness ==
    /\ ev.type = "connected"
    /\ ev.arg # 0
    /\ Tracked(ex2)
    /\ ex2.my_conn # ev.conn
    /\ ex2.led = 1
    /\ ex2.refs[ev.conn] = 0

C18_LedTracksReference ==
    /\ ex1.led = 1 <=> \E c \in Conns : ex1.refs[c] > 0
    /\ ex2.led = 1 <=> \E c \in Conns : ex2.refs[c] > 0

\* C19: after every event the two programs have the same my_conn, the same
\* references and the same LED, and the last handlers made the same
\* lifecycle and send calls; exercise 2 made calls of the negotiation besides.
C19_LifecycleAgree ==
    /\ SameApp(ex1, ex2)
    /\ \A i \in DOMAIN ex1.calls : ex1.calls[i].api \in LifecycleApis
    /\ {ex1.calls[i] : i \in DOMAIN ex1.calls}
          = {ex2.calls[i] : i \in {j \in DOMAIN ex2.calls : ex2.calls[j].api \in LifecycleApis}}
    /\ Len(ex1.calls)
          = Cardinality({j \in DOMAIN ex2.calls : ex2.calls[j].api \in LifecycleApis})

\* C19 witness: a connection that exercise 2 negotiated on was disconnected;
\* the two handlers made their calls in a different order.
C19_Witness ==
    /\ ev.type = "disconnected"
    /\ ex1.calls # ex2.calls
    /\ ex2.reqlog[ev.conn] = PhyDlMtu
    /\ ex1.my_conn = ev.conn
    /\ ex1.refs[ev.conn] = 0
    /\ ex2.refs[ev.conn] = 0
====
